---------------------------- MODULE Spec2Model ----------------------------
(***************************************************************************)
(* Carpet model generation: the subdivided plane, its displacement, the    *)
(* per-vertex tangents and the GLB export of                               *)
(* src/src/model_generation/model_generation/generate_model.py.            *)
(*                                                                         *)
(* Numbers are exact.  A length is an integer count of 1/PosScale metre,   *)
(* a UV coordinate an integer count of 1/UVScale, a height an integer      *)
(* count of 1/HeightDen.  A vector whose length involves a square root is  *)
(* a record [v, den2] standing for v / sqrt(den2).                         *)
(***************************************************************************)
EXTENDS Integers, Sequences, FiniteSets, TLC

VARIABLES
    pc,            \* position of the conversion in process_carpet
    dimensions,    \* process_carpet: the dimensions argument, or None
    subdivisions,  \* Config.MESH_SUBDIVISION used by this conversion
    width,         \* Config.CARPET_WIDTH  (whole metres)
    height,        \* Config.CARPET_HEIGHT (whole metres)
    CARPET_THICKNESS,   \* Config.CARPET_THICKNESS, in 1/ThicknessScale metre
    DISPLACEMENT_SCALE, \* Config.DISPLACEMENT_SCALE, in 1/PosScale metre
    plane_vertices,\* the array create_subdivided_plane returned
    vertices,      \* (N,3) array: index -> <<x, y, z>>
    faces,         \* list of [a, b, c]
    uvs,           \* (N,2) array: index -> <<u, v>>
    height_map,    \* the height field handed to apply_displacement
    scale,         \* displacement_scale, handed to apply_displacement
    normals,       \* mesh.vertex_normals
    tangents,      \* compute_tangents: the tangent accumulator / result
    bitangents,    \* compute_tangents: the bitangent accumulator
    face_idx,      \* compute_tangents: number of faces already processed
    valid_tangents,\* compute_tangents: tangent_lengths > 1e-8, per vertex
    vertex_idx,    \* compute_tangents: number of vertices already orthogonalised
    tangents_vec4, \* export: the (N,4) tangent array
    indices,       \* export: faces.flatten()
    binary_data,   \* export: the bytearray, as the list of the arrays appended to it
    glb_data,      \* export: what gltf.set_binary_blob was given
    buffer_len,    \* export: gltf.buffers[0].byteLength
    buffer_views,  \* export: gltf.bufferViews
    accessors,     \* export: gltf.accessors
    png,           \* export: the byte lengths of the two encoded PNG images
    glb_file,      \* the file at output_path, written by gltf.save_binary
    usdz_file,     \* the file at usdz_path, written by the converter
    calls,         \* the process_carpet calls of the executor threads: arguments,
                   \* position and local variables of each
    files,         \* the files on disk: path and whose data it holds
    error,         \* the exception that ended the conversion, if any
    log,           \* the records compute_tangents has logged
    requests,      \* generate_model_with_ar_link: position and locals of each request
    conversion     \* export_usdz / convert_glb_to_usdz: position and locals of the call

-----------------------------------------------------------------------------
(* Bounds of the model *)

MaxS == 3
MaxDim == 2
MaxField == 2
MaxScale == 1
MaxPng == 3
MaxJson == 3

(* Program constants *)

\* 1e-8, the threshold of compute_tangents, as its inverse 10^8
EpsInv == 100000000

-----------------------------------------------------------------------------
(* Arithmetic helpers *)

Abs(a) == IF a < 0 THEN -a ELSE a

RECURSIVE GcdNat(_, _)
GcdNat(a, b) == IF b = 0 THEN a ELSE GcdNat(b, a % b)
Gcd(a, b) == GcdNat(Abs(a), Abs(b))

Lcm(a, b) == (a * b) \div Gcd(a, b)

RECURSIVE LcmUpTo(_)
LcmUpTo(n) == IF n <= 1 THEN 1 ELSE Lcm(n, LcmUpTo(n - 1))

\* units: every step W/(S-1) and every UV step 1/(S-1) is a whole number
UVScale == LcmUpTo(MaxS - 1)
PosScale == 2 * UVScale
\* heights are counted in halves: 0, 0.5, 1
HeightDen == 2

\* a 0-based array of n elements
Arr(n, F(_)) == [k \in 0 .. n - 1 |-> F(k)]
ArrLen(a) == Cardinality(DOMAIN a)
SeqToArr(s) == [k \in 0 .. Len(s) - 1 |-> s[k + 1]]

-----------------------------------------------------------------------------
(* numpy *)

\* np.linspace(a, b, n): a + i * (b - a) / (n - 1), as a list
Linspace(a, b, n) ==
    IF n = 1 THEN << a >>
    ELSE [i \in 1 .. n |-> a + ((i - 1) * (b - a)) \div (n - 1)]

\* np.meshgrid(x, z): two (len(z), len(x)) arrays; row i, column j holds x[j], z[i]
MeshgridX(x, z) == [i \in 1 .. Len(z) |-> x]
MeshgridZ(x, z) == [i \in 1 .. Len(z) |-> [j \in 1 .. Len(x) |-> z[i]]]

\* ndarray.flatten(): the rows one after the other
RECURSIVE Flatten(_)
Flatten(rows) == IF rows = << >> THEN << >> ELSE Head(rows) \o Flatten(Tail(rows))

-----------------------------------------------------------------------------
(* create_subdivided_plane *)

\* variants of the inner loop: one triangle a quad; indices counted from 1; the
\* second and third vertex of each triangle exchanged
RECURSIVE QuadRowOneTriangle(_, _, _)
QuadRowOneTriangle(S, i, j) ==
    IF j >= S - 1 THEN << >>
    ELSE LET idx == i * S + j
         IN  << << idx, idx + S, idx + 1 >> >> \o QuadRowOneTriangle(S, i, j + 1)

RECURSIVE QuadRowOneBased(_, _, _)
QuadRowOneBased(S, i, j) ==
    IF j >= S - 1 THEN << >>
    ELSE LET idx == i * S + j + 1
         IN  << << idx, idx + S, idx + 1 >>,
                << idx + 1, idx + S, idx + S + 1 >> >> \o QuadRowOneBased(S, i, j + 1)

RECURSIVE QuadRowClockwise(_, _, _)
QuadRowClockwise(S, i, j) ==
    IF j >= S - 1 THEN << >>
    ELSE LET idx == i * S + j
         IN  << << idx, idx + 1, idx + S >>,
                << idx + 1, idx + S + 1, idx + S >> >> \o QuadRowClockwise(S, i, j + 1)

\* the inner loop: for j in range(subdivisions - 1)
RECURSIVE QuadRow(_, _, _)
QuadRow(S, i, j) ==
    IF j >= S - 1 THEN << >>
    ELSE LET idx == i * S + j
         IN  << << idx, idx + S, idx + 1 >>,
                << idx + 1, idx + S, idx + S + 1 >> >> \o QuadRow(S, i, j + 1)

\* the outer loop: for i in range(subdivisions - 1)
RECURSIVE QuadRows(_, _)
QuadRows(S, i) ==
    IF i >= S - 1 THEN << >> ELSE QuadRow(S, i, 0) \o QuadRows(S, i + 1)

PlaneFaces(S) == QuadRows(S, 0)

PlaneVertices(W, H, S) ==
    LET x  == Linspace(-(W * PosScale) \div 2, (W * PosScale) \div 2, S)
        z  == Linspace(-(H * PosScale) \div 2, (H * PosScale) \div 2, S)
        xv == Flatten(MeshgridX(x, z))
        zv == Flatten(MeshgridZ(x, z))
    IN  Arr(S * S, LAMBDA k : << xv[k + 1], 0, zv[k + 1] >>)

\* variant: V not flipped
PlaneUVsNoFlip(S) ==
    LET u  == Linspace(0, UVScale, S)
        v  == Linspace(0, UVScale, S)
        uv == Flatten(MeshgridX(u, v))
        vv == Flatten(MeshgridZ(u, v))
    IN  Arr(S * S, LAMBDA k : << uv[k + 1], vv[k + 1] >>)

PlaneUVs(S) ==
    LET u  == Linspace(0, UVScale, S)
        v  == Linspace(0, UVScale, S)
        uv == Flatten(MeshgridX(u, v))
        vv == Flatten(MeshgridZ(u, v))
    IN  Arr(S * S, LAMBDA k : << uv[k + 1], UVScale - vv[k + 1] >>)

-----------------------------------------------------------------------------
(* apply_displacement *)

FieldHeight(hm) == Len(hm)
FieldWidth(hm) == Len(hm[1])

\* variant: the pixel taken at u * width
SampleXWidth(hm, uv) == (uv[1] * FieldWidth(hm)) \div UVScale

\* int(u * (width - 1)), int(v * (height - 1)) and height_map[y, x]
SampleX(hm, uv) == (uv[1] * (FieldWidth(hm) - 1)) \div UVScale
SampleY(hm, uv) == (uv[2] * (FieldHeight(hm) - 1)) \div UVScale
Sample(hm, uv) == hm[SampleY(hm, uv) + 1][SampleX(hm, uv) + 1]

\* variant: the height taken without the 0.5
DisplaceNoOffset(h, sc) == (h * sc) \div HeightDen

\* (h - 0.5) * scale, the scale in 1/PosScale metre
Displace(h, sc) == ((2 * h - HeightDen) * sc) \div (2 * HeightDen)

\* the loop: displaced_vertices[i, 1] = (h - 0.5) * scale
DisplacedVertices(vs, uv, hm, sc) ==
    [i \in DOMAIN vs |-> << vs[i][1], Displace(Sample(hm, uv[i]), sc), vs[i][3] >>]

\* variant: displaced_vertices is the array of the caller
ArrayAlias(arrays, name) == [ref |-> name, arrays |-> arrays]

\* vertices.copy(): a new array with the same values
ArrayCopy(arrays, name) ==
    [ref |-> "displaced_vertices",
     arrays |-> [arrays EXCEPT !["displaced_vertices"] = arrays[name]]]

\* apply_displacement on the arrays it can reach: what the caller's array holds
\* after the call, and the array returned
ApplyDisplacementArrays(vs, uv, hm, sc) ==
    LET c == ArrayCopy([vertices |-> vs, displaced_vertices |-> << >>], "vertices")
        written == [c.arrays EXCEPT ![c.ref] = DisplacedVertices(@, uv, hm, sc)]
    IN  [vertices |-> written["vertices"], displaced_vertices |-> written[c.ref]]

-----------------------------------------------------------------------------
(* process_carpet and create_carpet_mesh: thickness and displacement scale *)

\* Config.CARPET_THICKNESS is counted in 1/ThicknessScale metre
ThicknessScale == 10000

\* variant: the millimetres taken as metres
ThicknessNotConverted(mm) == mm * ThicknessScale

\* dimensions['thickness'] / 1000.0: millimetres to metres
ThicknessOfMm(mm) == (mm * ThicknessScale) \div 1000

\* 0.005, the thickness the displacement scale is relative to
ReferenceThickness == (5 * ThicknessScale) \div 1000

\* Config.DISPLACEMENT_SCALE * (Config.CARPET_THICKNESS / 0.005)
DisplacementScale(base, thickness) == (base * thickness) \div ReferenceThickness

-----------------------------------------------------------------------------
(* Vectors *)

Dot(a, b) == a[1] * b[1] + a[2] * b[2] + a[3] * b[3]
Cross(a, b) == << a[2] * b[3] - a[3] * b[2],
                  a[3] * b[1] - a[1] * b[3],
                  a[1] * b[2] - a[2] * b[1] >>
VAdd(a, b) == << a[1] + b[1], a[2] + b[2], a[3] + b[3] >>
VSub(a, b) == << a[1] - b[1], a[2] - b[2], a[3] - b[3] >>
VMul(k, a) == << k * a[1], k * a[2], k * a[3] >>
VDiv(a, k) == << a[1] \div k, a[2] \div k, a[3] \div k >>
VGcd(a) == Gcd(Gcd(a[1], a[2]), a[3])
Zero3 == << 0, 0, 0 >>

\* a vector of rationals v / q, q > 0, in lowest terms; q = 0 is what a division
\* by zero leaves in a numpy array (inf or nan, no exception)
NonFinite == [v |-> Zero3, q |-> 0]
Rat(v, q) ==
    IF q = 0 THEN NonFinite
    ELSE LET g == Gcd(VGcd(v), q)
             s == IF q < 0 THEN -1 ELSE 1
         IN  [v |-> VDiv(VMul(s, v), g), q |-> (s * q) \div g]
RatZero == [v |-> Zero3, q |-> 1]
RatAdd(a, b) ==
    IF a.q = 0 \/ b.q = 0 THEN NonFinite
    ELSE LET l == Lcm(a.q, b.q)
         IN  Rat(VAdd(VMul(l \div a.q, a.v), VMul(l \div b.q, b.v)), l)

\* v / sqrt(den2); a unit vector has Dot(v, v) = den2
Sv(v, den2) == [v |-> v, den2 |-> den2]
OfRat(r) == Sv(r.v, r.q * r.q)
\* x / np.linalg.norm(x) for a non-zero x: the direction, in lowest terms
Unit(v) == LET d == VDiv(v, VGcd(v)) IN Sv(d, Dot(d, d))
NaN == [v |-> Zero3, den2 |-> 0]
IsUnit(t) == t.den2 > 0 /\ Dot(t.v, t.v) = t.den2

\* num / den > 1e-16, that is sqrt(num / den) > 1e-8
ExceedsEps(num, den) == num > (den \div EpsInv) \div EpsInv

-----------------------------------------------------------------------------
(* compute_tangents: the loop over the triangles *)

\* denominator = deltaUV1[0] * deltaUV2[1] - deltaUV2[0] * deltaUV1[1], in 1/UVScale^2
UVDenominator(uv, face) ==
    LET w1 == uv[face[1]]  w2 == uv[face[2]]  w3 == uv[face[3]]
        d1 == << w2[1] - w1[1], w2[2] - w1[2] >>
        d2 == << w3[1] - w1[1], w3[2] - w1[2] >>
    IN  d1[1] * d2[2] - d2[1] * d1[2]

\* variant: no triangle is skipped
NeverDegenerate(uv, face) == FALSE

\* abs(denominator) < 1e-8, that is |d| * 10^8 < UVScale^2 for the whole number d
Degenerate(uv, face) ==
    Abs(UVDenominator(uv, face)) <= (UVScale * UVScale - 1) \div EpsInv

\* f * (deltaUV2[1] * edge1 - deltaUV1[1] * edge2), f = 1.0 / denominator
FaceTangent(vs, uv, face) ==
    LET edge1 == VSub(vs[face[2]], vs[face[1]])
        edge2 == VSub(vs[face[3]], vs[face[1]])
        w1 == uv[face[1]]  w2 == uv[face[2]]  w3 == uv[face[3]]
    IN  Rat(VMul(UVScale, VSub(VMul(w3[2] - w1[2], edge1), VMul(w2[2] - w1[2], edge2))),
            PosScale * UVDenominator(uv, face))

\* variant: the sign of the bitangent reversed
FaceBitangentReversed(vs, uv, face) ==
    LET edge1 == VSub(vs[face[2]], vs[face[1]])
        edge2 == VSub(vs[face[3]], vs[face[1]])
        w1 == uv[face[1]]  w2 == uv[face[2]]  w3 == uv[face[3]]
    IN  Rat(VMul(UVScale, VAdd(VMul(w3[1] - w1[1], edge1), VMul(-(w2[1] - w1[1]), edge2))),
            PosScale * UVDenominator(uv, face))

\* f * (-deltaUV2[0] * edge1 + deltaUV1[0] * edge2)
FaceBitangent(vs, uv, face) ==
    LET edge1 == VSub(vs[face[2]], vs[face[1]])
        edge2 == VSub(vs[face[3]], vs[face[1]])
        w1 == uv[face[1]]  w2 == uv[face[2]]  w3 == uv[face[3]]
    IN  Rat(VMul(UVScale, VAdd(VMul(-(w3[1] - w1[1]), edge1), VMul(w2[1] - w1[1], edge2))),
            PosScale * UVDenominator(uv, face))

\* acc[i1] += x; acc[i2] += x; acc[i3] += x
RECURSIVE AddAt(_, _, _)
AddAt(acc, idxs, x) ==
    IF idxs = << >> THEN acc
    ELSE AddAt([acc EXCEPT ![Head(idxs)] = RatAdd(@, x)], Tail(idxs), x)

\* one pass of the loop body on [tangents, bitangents]
TangentLoopBody(acc, vs, uv, face) ==
    IF Degenerate(uv, face) THEN acc
    ELSE [t |-> AddAt(acc.t, face, FaceTangent(vs, uv, face)),
          b |-> AddAt(acc.b, face, FaceBitangent(vs, uv, face))]

-----------------------------------------------------------------------------
(* compute_tangents: normalisation and Gram-Schmidt *)

\* tangent_lengths > 1e-8
ValidTangent(r) == r.q > 0 /\ ExceedsEps(Dot(r.v, r.v), r.q * r.q)

\* tangents[valid] = tangents[valid] / tangent_lengths[valid]
NormalizedTangent(r) == IF ValidTangent(r) THEN Unit(r.v) ELSE OfRat(r)

\* variant: the tangent is left as it is
NoProjection(t, n) == [v |-> t.v, k |-> 1, den2 |-> t.den2]

\* tangents[i] - np.dot(tangents[i], normals[i]) * normals[i], for t = T / sqrt(a) and
\* n = N / sqrt(b): (b * T - (T . N) * N) / (b * sqrt(a)), as [v, k, den2] = v / (k * sqrt(den2))
TangentProj(t, n) ==
    [v |-> VSub(VMul(n.den2, t.v), VMul(Dot(t.v, n.v), n.v)), k |-> n.den2, den2 |-> t.den2]

\* tangent_length > 1e-8: v.v / (k * k * den2) > 1e-16.  A non-zero whole v has
\* v.v >= 1, and k * k * den2 < 10^15 when each factor is below 10^5
ProjLengthExceedsEps(p) ==
    IF p.k < 100000 /\ p.den2 < 100000
    THEN p.v # Zero3
    ELSE ExceedsEps(Dot(p.v, p.v), p.k * p.k * p.den2)

\* abs(np.dot(normals[i], arbitrary)) > 0.9 picks (0, 1, 0)
Arbitrary(n) ==
    IF 100 * n.v[1] * n.v[1] > 81 * n.den2 THEN << 0, 1, 0 >> ELSE << 1, 0, 0 >>

Perpendicular(n) ==
    LET c == Cross(n.v, Arbitrary(n))
    IN  IF c = Zero3 THEN NaN ELSE Unit(c)

\* the body of the loop over the vertices, t the normalised tangent
OrthogonalTangent(valid, t, n) ==
    IF ~valid THEN t
    ELSE LET proj == TangentProj(t, n)
         IN  IF ProjLengthExceedsEps(proj)
             THEN Unit(proj.v)
             ELSE Perpendicular(n)

-----------------------------------------------------------------------------
(* trimesh: mesh.vertex_normals, the normalised sum of the normals of the    *)
(* faces around a vertex (the sum is weighted here by the faces' areas)      *)

FaceNormal(vs, face) ==
    Cross(VSub(vs[face[2]], vs[face[1]]), VSub(vs[face[3]], vs[face[1]]))

RECURSIVE SumFaceNormals(_, _, _, _)
SumFaceNormals(vs, fs, i, k) ==
    IF k > Len(fs) THEN Zero3
    ELSE VAdd(IF i \in {fs[k][1], fs[k][2], fs[k][3]} THEN FaceNormal(vs, fs[k]) ELSE Zero3,
              SumFaceNormals(vs, fs, i, k + 1))

VertexNormals(vs, fs) ==
    [i \in DOMAIN vs |->
        LET n == SumFaceNormals(vs, fs, i, 1)
        IN  IF n = Zero3 THEN NaN ELSE Unit(n)]

-----------------------------------------------------------------------------
(* export_glb_with_pygltflib *)

ARRAY_BUFFER == 34962
ELEMENT_ARRAY_BUFFER == 34963

\* tangents_vec4[:, :3] = tangents; tangents_vec4[:, 3] = 1.0
TangentsVec4(ts) == [i \in DOMAIN ts |-> [xyz |-> ts[i], w |-> 1]]

\* variant: the array left as float64
Float64Bytes(n, cols) == n * cols * 8

\* len(data.tobytes()) of an array of n rows
Float32Bytes(n, cols) == n * cols * 4
UInt32Bytes(n) == n * 4

RECURSIVE BufLen(_)
BufLen(bd) == IF bd = << >> THEN 0 ELSE Head(bd).nbytes + BufLen(Tail(bd))

\* add_to_buffer: start_offset = len(binary_data); binary_data.extend(data.tobytes())
AddToBuffer(bd, data, nbytes) ==
    [binary_data |-> Append(bd, [data |-> data, nbytes |-> nbytes]),
     offset |-> BufLen(bd),
     size |-> nbytes]

\* variant: the blob is a copy of the bytes present at the call
SetBinaryBlobCopy(bd) == [same_object |-> FALSE, nbytes |-> BufLen(bd)]

\* gltf.set_binary_blob(binary_data) keeps the bytearray itself, not a copy
SetBinaryBlob(bd) == [same_object |-> TRUE, nbytes |-> BufLen(bd)]

\* gltf.binary_blob() when the file is saved
BinaryBlobLen(blob, bd) == IF blob.same_object THEN BufLen(bd) ELSE blob.nbytes

BufferView(offset, size, target) ==
    [buffer |-> 0, byteOffset |-> offset, byteLength |-> size, target |-> target]

Accessor(bv, count, type, componentType) ==
    [bufferView |-> bv, byteOffset |-> 0, count |-> count, type |-> type,
     componentType |-> componentType]

\* the five add_to_buffer calls on the mesh arrays
MeshBuffer(nv, nuv, nn, nt, ni) ==
    LET pos == AddToBuffer(<< >>, "vertices", Float32Bytes(nv, 3))
        uv  == AddToBuffer(pos.binary_data, "uvs", Float32Bytes(nuv, 2))
        nor == AddToBuffer(uv.binary_data, "normals", Float32Bytes(nn, 3))
        tan == AddToBuffer(nor.binary_data, "tangents_vec4", Float32Bytes(nt, 4))
        idx == AddToBuffer(tan.binary_data, "indices", UInt32Bytes(ni))
    IN  [binary_data |-> idx.binary_data,
         views |-> << BufferView(pos.offset, pos.size, ARRAY_BUFFER),
                      BufferView(uv.offset, uv.size, ARRAY_BUFFER),
                      BufferView(nor.offset, nor.size, ARRAY_BUFFER),
                      BufferView(tan.offset, tan.size, ARRAY_BUFFER),
                      BufferView(idx.offset, idx.size, ELEMENT_ARRAY_BUFFER) >>]

MeshAccessors(nv, nuv, nn, nt, ni) ==
    << Accessor(0, nv, "VEC3", "FLOAT"),
       Accessor(1, nuv, "VEC2", "FLOAT"),
       Accessor(2, nn, "VEC3", "FLOAT"),
       Accessor(3, nt, "VEC4", "FLOAT"),
       Accessor(4, ni, "SCALAR", "UNSIGNED_INT") >>

\* the two add_to_buffer calls on the PNG bytes
TextureBuffer(bd, basecolor_len, normal_len) ==
    LET bc == AddToBuffer(bd, "basecolor_data", basecolor_len)
        nm == AddToBuffer(bc.binary_data, "normal_data", normal_len)
    IN  [binary_data |-> nm.binary_data,
         views |-> << BufferView(bc.offset, bc.size, "None"),
                      BufferView(nm.offset, nm.size, "None") >>]

-----------------------------------------------------------------------------
(* pygltflib: GLTF2.save_binary, the GLB container *)

\* variant: nothing is added
NoPadding(n) == 0

\* bytes added to reach a multiple of 4
Padding(n) == (4 - (n % 4)) % 4

JsonChunk(json_len) ==
    [type |-> "JSON", data |-> json_len, padding |-> Padding(json_len), pad_byte |-> " "]

BinChunk(blob_len) ==
    [type |-> "BIN", data |-> blob_len, padding |-> Padding(blob_len), pad_byte |-> 0]

ChunkLength(c) == c.data + c.padding

SaveBinary(json_len, blob_len) ==
    LET json == JsonChunk(json_len)
        bin  == BinChunk(blob_len)
    IN  [magic |-> "glTF", version |-> 2,
         length |-> 12 + 8 + ChunkLength(json) + 8 + ChunkLength(bin),
         json_chunk |-> json, json_chunk_length |-> ChunkLength(json),
         bin_chunk |-> bin, bin_chunk_length |-> ChunkLength(bin)]

-----------------------------------------------------------------------------
(* Inputs *)

\* height fields of 1 .. MaxField pixels a side: constant, or a ramp in x, y or both
Patterns == { << 0, 0, 1 >>, << 0, 0, 0 >>, << 0, 0, 2 >>,
              << 1, 0, 0 >>, << 0, 1, 1 >>, << 1, 1, 2 >> }
Field(p, fh, fw) ==
    [y \in 1 .. fh |-> [x \in 1 .. fw |->
        (p[1] * (x - 1) + p[2] * (y - 1) + p[3]) % (HeightDen + 1)]]
HeightMaps == { Field(p, fh, fw) : p \in Patterns, fh \in 1 .. MaxField, fw \in 1 .. MaxField }

\* base displacement scales (Config.DISPLACEMENT_SCALE, or --displacement) for which
\* the scale of every thickness and (h - 0.5) * scale are whole numbers of units
Scales == { 2 * HeightDen * 5 * k : k \in 1 .. MaxScale }

\* thicknesses of a request, in millimetres
ThicknessesMm == { 1, 5, 10 }

\* "dimensions: Optional[dict] = None"
None == [none |-> TRUE]

\* the dimensions argument of process_carpet
Dimensions ==
    [width : 1 .. MaxDim, length : 1 .. MaxDim, thickness : ThicknessesMm]

\* the class attributes of Config when the module is loaded
DefaultWidth == 2
DefaultHeight == 3
DefaultThickness == ReferenceThickness

vars == << pc, dimensions, subdivisions, width, height, CARPET_THICKNESS,
           DISPLACEMENT_SCALE, plane_vertices,
           vertices, faces, uvs, height_map, scale,
           normals, tangents, bitangents, face_idx, valid_tangents, vertex_idx,
           tangents_vec4, indices,
           binary_data, glb_data, buffer_len, buffer_views, accessors, png, glb_file,
           usdz_file, calls, files, error, log, requests, conversion >>

serviceVars == << calls, files, requests, conversion >>

NoError == ""
NoConversion == [pc |-> "none"]

\* logger.info("Computing tangent vectors for consistent normal mapping...")
TangentsEntryLog == [level |-> "INFO", message |-> "Computing tangent vectors"]

\* logger.info(f"Computed tangents for {np.sum(valid_tangents)} vertices")
TangentsReturnLog(valid) ==
    [level |-> "INFO", message |-> "Computed tangents for",
     vertices |-> Cardinality({ i \in DOMAIN valid : valid[i] })]

\* the variables no step of the mesh pipeline touches
IdleService ==
    /\ calls = << >>
    /\ files = { }
    /\ requests = << >>
    /\ conversion = NoConversion
meshVars == << plane_vertices, vertices, faces, uvs, normals, scale >>
tangentVars == << tangents, bitangents, face_idx, valid_tangents, vertex_idx >>
exportVars == << tangents_vec4, indices, binary_data, glb_data, buffer_len,
                 buffer_views, accessors, png, glb_file, usdz_file >>
configVars == << dimensions, subdivisions, width, height, CARPET_THICKNESS,
                DISPLACEMENT_SCALE >>

NoBlob == [same_object |-> FALSE, nbytes |-> 0]
NoFile == [magic |-> "", version |-> 0, length |-> 0]

\* what a write that raised before its end leaves at the path it had opened
PartialFile == [magic |-> "glTF", version |-> 2, length |-> 0, truncated |-> TRUE]

\* the file at usdz_path: none, a whole package, or what a failed conversion left
UsdzFiles == { "absent", "complete", "partial" }

ExportInit ==
    /\ tangents_vec4 = << >>
    /\ indices = << >>
    /\ binary_data = << >>
    /\ glb_data = NoBlob
    /\ buffer_len = 0
    /\ buffer_views = << >>
    /\ accessors = << >>
    /\ png = << >>
    /\ glb_file = NoFile
    /\ usdz_file = "absent"

\* dimensions nothing in process_carpet or create_subdivided_plane refuses: a
\* width or a length that is zero or negative
InvalidDimensions ==
    [width : { -1, 0 }, length : 1 .. MaxDim, thickness : { 5 }]
        \cup [width : 1 .. MaxDim, length : { -1, 0 }, thickness : { 5 }]

\* the state when process_carpet is called with one of the given dimensions
InitWith(dims) ==
    /\ pc = "called"
    /\ dimensions \in dims
    /\ subdivisions \in 2 .. MaxS
    /\ width = DefaultWidth
    /\ height = DefaultHeight
    /\ CARPET_THICKNESS = DefaultThickness
    /\ DISPLACEMENT_SCALE \in Scales
    /\ scale = 0
    /\ plane_vertices = << >>
    /\ vertices = << >>
    /\ faces = << >>
    /\ uvs = << >>
    /\ height_map = << >>
    /\ normals = << >>
    /\ tangents = << >>
    /\ bitangents = << >>
    /\ face_idx = 0
    /\ valid_tangents = << >>
    /\ vertex_idx = 0
    /\ ExportInit
    /\ error = NoError
    /\ log = << >>
    /\ IdleService

Init == InitWith(Dimensions \cup { None })

-----------------------------------------------------------------------------
(* process_carpet *)

\* "if dimensions:" and the three assignments to the attributes of Config
UpdateConfig ==
    /\ pc = "called"
    /\ IF dimensions # None
       THEN /\ width' = dimensions.width
            /\ height' = dimensions.length
            /\ CARPET_THICKNESS' = ThicknessOfMm(dimensions.thickness)
       ELSE UNCHANGED << width, height, CARPET_THICKNESS >>
    /\ pc' = "start"
    /\ UNCHANGED << serviceVars, error, log, dimensions, subdivisions, DISPLACEMENT_SCALE,
                    height_map, meshVars, tangentVars, exportVars >>

-----------------------------------------------------------------------------
(* create_carpet_mesh *)

\* cv2.imread(normal_map_path) and the conversion to a height map in [0, 1]
LoadNormalMap ==
    /\ pc = "start"
    /\ \E hm \in HeightMaps : height_map' = hm
    /\ pc' = "loaded"
    /\ UNCHANGED << serviceVars, error, log, configVars, meshVars, tangentVars, exportVars >>

\* normal_map is None: raise ValueError
LoadNormalMapFails ==
    /\ pc = "start"
    /\ pc' = "failed"
    /\ error' = "ValueError: Could not load normal map"
    /\ UNCHANGED << serviceVars, log, configVars, height_map, meshVars, tangentVars, exportVars >>

CreateSubdividedPlane ==
    /\ pc = "loaded"
    /\ plane_vertices' = PlaneVertices(width, height, subdivisions)
    /\ vertices' = plane_vertices'
    /\ faces' = PlaneFaces(subdivisions)
    /\ uvs' = PlaneUVs(subdivisions)
    /\ pc' = "plane"
    /\ UNCHANGED << serviceVars, error, log, configVars, height_map, normals, scale, tangentVars, exportVars >>

ApplyDisplacement ==
    /\ pc = "plane"
    /\ scale' = DisplacementScale(DISPLACEMENT_SCALE, CARPET_THICKNESS)
    /\ LET r == ApplyDisplacementArrays(vertices, uvs, height_map, scale')
       IN  /\ plane_vertices' = r.vertices
           /\ vertices' = r.displaced_vertices
    /\ pc' = "displaced"
    /\ UNCHANGED << serviceVars, error, log, configVars, height_map, faces, uvs, normals, tangentVars, exportVars >>

\* trimesh.Trimesh(...), mesh.vertex_normals and the entry of compute_tangents
BuildMesh ==
    /\ pc = "displaced"
    /\ normals' = VertexNormals(vertices, faces)
    /\ tangents' = [i \in DOMAIN vertices |-> RatZero]
    /\ bitangents' = [i \in DOMAIN vertices |-> RatZero]
    /\ face_idx' = 0
    /\ valid_tangents' = << >>
    /\ vertex_idx' = 0
    /\ log' = Append(log, TangentsEntryLog)
    /\ pc' = "tangent_loop"
    /\ UNCHANGED << serviceVars, error, configVars, height_map, plane_vertices, vertices, faces, uvs, scale,
                    exportVars >>

\* compute_tangents: one triangle of "for face_idx, face in enumerate(faces)"
TangentLoop ==
    /\ pc = "tangent_loop"
    /\ face_idx < Len(faces)
    /\ LET acc == TangentLoopBody([t |-> tangents, b |-> bitangents],
                                  vertices, uvs, faces[face_idx + 1])
       IN  /\ tangents' = acc.t
           /\ bitangents' = acc.b
    /\ face_idx' = face_idx + 1
    /\ UNCHANGED << pc, serviceVars, error, log, configVars, height_map, meshVars, valid_tangents, vertex_idx,
                    exportVars >>

\* compute_tangents: "Normalize tangents", after the last triangle
TangentNormalize ==
    /\ pc = "tangent_loop"
    /\ face_idx = Len(faces)
    /\ valid_tangents' = [i \in DOMAIN tangents |-> ValidTangent(tangents[i])]
    /\ tangents' = [i \in DOMAIN tangents |-> NormalizedTangent(tangents[i])]
    /\ vertex_idx' = 0
    /\ pc' = "gram_schmidt"
    /\ UNCHANGED << serviceVars, error, log, configVars, height_map, meshVars, bitangents, face_idx, exportVars >>

\* compute_tangents: one vertex of "for i in range(len(tangents))"
GramSchmidt ==
    /\ pc = "gram_schmidt"
    /\ vertex_idx < ArrLen(tangents)
    /\ tangents' = [tangents EXCEPT ![vertex_idx] =
                        OrthogonalTangent(valid_tangents[vertex_idx], @, normals[vertex_idx])]
    /\ vertex_idx' = vertex_idx + 1
    /\ UNCHANGED << pc, serviceVars, error, log, configVars, height_map, meshVars, bitangents, face_idx,
                    valid_tangents, exportVars >>

\* compute_tangents: return tangents
TangentsReturn ==
    /\ pc = "gram_schmidt"
    /\ vertex_idx = ArrLen(tangents)
    /\ log' = Append(log, TangentsReturnLog(valid_tangents))
    /\ pc' = "tangents_done"
    /\ UNCHANGED << serviceVars, error, configVars, height_map, meshVars, tangentVars, exportVars >>

\* mesh.vertex_attributes['tangent'] = tangents; return mesh
StoreTangents ==
    /\ pc = "tangents_done"
    /\ pc' = "mesh"
    /\ height_map' = << >>
    /\ bitangents' = << >>
    /\ face_idx' = 0
    /\ valid_tangents' = << >>
    /\ vertex_idx' = 0
    /\ UNCHANGED << serviceVars, error, log, configVars, meshVars, tangents, exportVars >>

-----------------------------------------------------------------------------
(* export_glb_with_pygltflib *)

\* variant: the textures opened once the file has been saved
TexturesOpenedAfterSave == "exported"

\* where the export stands when Image.open reads the two textures: at its entry
TexturesOpenedAt == "mesh"

\* Image.open or convert('RGB') raises: ValueError("Could not load texture images")
LoadTexturesFails ==
    /\ pc = TexturesOpenedAt
    /\ pc' = "failed"
    /\ error' = "ValueError: Could not load texture images"
    /\ UNCHANGED << serviceVars, log, configVars, height_map, meshVars, tangentVars,
                    exportVars >>

\* basecolor_image.save(..., format='PNG') or normal_map_image.save decodes the
\* pixels, and raises on data that cannot be decoded
EncodeTexturesFails ==
    /\ pc = "mesh_data"
    /\ pc' = "failed"
    /\ error' = "OSError: cannot decode image"
    /\ UNCHANGED << serviceVars, log, configVars, height_map, meshVars, tangentVars,
                    exportVars >>

\* the arrays of the mesh, the VEC4 tangents and the flattened indices
ExportPrepare ==
    /\ pc = "mesh"
    /\ tangents_vec4' = TangentsVec4(tangents)
    /\ indices' = Flatten(faces)
    /\ pc' = "arrays"
    /\ UNCHANGED << serviceVars, error, log, configVars, height_map, meshVars, tangentVars, binary_data, glb_data,
                    buffer_len, buffer_views, accessors, png, glb_file, usdz_file >>

\* the mesh arrays go into binary_data; buffer, blob, bufferViews and accessors
ExportMeshData ==
    /\ pc = "arrays"
    /\ LET nv == ArrLen(vertices)       nuv == ArrLen(uvs)
           nn == ArrLen(normals)        nt == ArrLen(tangents_vec4)
           ni == Len(indices)
           mb == MeshBuffer(nv, nuv, nn, nt, ni)
       IN  /\ binary_data' = mb.binary_data
           /\ buffer_len' = BufLen(mb.binary_data)
           /\ glb_data' = SetBinaryBlob(mb.binary_data)
           /\ buffer_views' = mb.views
           /\ accessors' = MeshAccessors(nv, nuv, nn, nt, ni)
    /\ pc' = "mesh_data"
    /\ UNCHANGED << serviceVars, error, log, configVars, height_map, meshVars, tangentVars, tangents_vec4, indices,
                    png, glb_file, usdz_file >>

\* the two images are encoded as PNG and appended to binary_data
ExportTextures ==
    /\ pc = "mesh_data"
    /\ \E basecolor_len \in 1 .. MaxPng, normal_len \in 1 .. MaxPng :
          LET tb == TextureBuffer(binary_data, basecolor_len, normal_len)
          IN  /\ png' = << basecolor_len, normal_len >>
              /\ binary_data' = tb.binary_data
              /\ buffer_len' = BufLen(tb.binary_data)
              /\ buffer_views' = buffer_views \o tb.views
    /\ pc' = "document"
    /\ UNCHANGED << serviceVars, error, log, configVars, height_map, meshVars, tangentVars, tangents_vec4, indices,
                    glb_data, accessors, glb_file, usdz_file >>

\* gltf.save_binary(str(output_path))
ExportSave ==
    /\ pc = "document"
    /\ \E json_len \in 1 .. MaxJson :
          glb_file' = SaveBinary(json_len, BinaryBlobLen(glb_data, binary_data))
    /\ pc' = "exported"
    /\ UNCHANGED << serviceVars, error, log, configVars, height_map, meshVars, tangentVars, tangents_vec4, indices,
                    binary_data, glb_data, buffer_len, buffer_views, accessors, png,
                    usdz_file >>

\* gltf.save_binary(str(output_path)) raises: "except Exception" logs and re-raises.
\* The path given is the final one; nothing was written, or the file was opened
\* and holds what had been written
ExportSaveFails ==
    /\ pc = "document"
    /\ glb_file' \in { NoFile, PartialFile }
    /\ pc' = "failed"
    /\ error' = "Exception: save_binary"
    /\ UNCHANGED << serviceVars, log, configVars, height_map, meshVars, tangentVars, tangents_vec4, indices,
                    binary_data, glb_data, buffer_len, buffer_views, accessors, png,
                    usdz_file >>

-----------------------------------------------------------------------------
(* export_usdz *)

\* convert_glb_to_usdz(glb_path, str(usdz_path)) returns and the file exists
ExportUsdz ==
    /\ pc = "exported"
    /\ usdz_file' = "complete"
    /\ pc' = "done"
    /\ UNCHANGED << serviceVars, error, log, configVars, height_map, meshVars, tangentVars, tangents_vec4, indices,
                    binary_data, glb_data, buffer_len, buffer_views, accessors, png,
                    glb_file >>

\* the import or the converter raises, or the file was not created: the handler
\* removes the files usdz_path.* that do not end in .usdz and re-raises; nothing
\* in generate_carpet_model or process_carpet catches the exception to clean up
ExportUsdzFails ==
    /\ pc = "exported"
    /\ usdz_file' \in UsdzFiles \ { "complete" }
    /\ pc' = "failed"
    /\ error' = "Exception: export_usdz"
    /\ UNCHANGED << serviceVars, log, configVars, height_map, meshVars, tangentVars, tangents_vec4, indices,
                    binary_data, glb_data, buffer_len, buffer_views, accessors, png,
                    glb_file >>

Next ==
    \/ UpdateConfig
    \/ LoadNormalMap
    \/ LoadNormalMapFails
    \/ CreateSubdividedPlane
    \/ ApplyDisplacement
    \/ BuildMesh
    \/ TangentLoop
    \/ TangentNormalize
    \/ GramSchmidt
    \/ TangentsReturn
    \/ StoreTangents
    \/ LoadTexturesFails
    \/ ExportPrepare
    \/ ExportMeshData
    \/ EncodeTexturesFails
    \/ ExportTextures
    \/ ExportSave
    \/ ExportSaveFails
    \/ ExportUsdz
    \/ ExportUsdzFails

Spec == Init /\ [][Next]_vars

-----------------------------------------------------------------------------
(* compute_tangents on its own: four vertices, one or two triangles, any UVs *)

\* positions, in whole metres
TangentVertexSets ==
    { << << 0, 0, 0 >>, << 0, 0, 1 >>, << 1, 0, 0 >>, << 1, 0, 1 >> >>,
      << << 0, 0, 0 >>, << 0, 1, 0 >>, << 1, 0, 0 >>, << 1, 1, 0 >> >>,
      << << 0, 0, 0 >>, << 1, 1, 0 >>, << 0, 1, 1 >>, << 1, 0, 1 >> >>,
      << << 0, 0, 0 >>, << 0, 0, 0 >>, << 1, 0, 0 >>, << 0, 1, 0 >> >> }

TangentFaceLists ==
    { << << 0, 1, 2 >> >>, << << 0, 1, 2 >>, << 2, 1, 3 >> >>,
      << << 0, 1, 2 >>, << 2, 1, 3 >>, << 0, 3, 2 >>, << 0, 1, 3 >> >> }

\* each UV coordinate is 0 or 1
TangentUVs == { << 0, 0 >>, << UVScale, 0 >>, << 0, UVScale >>, << UVScale, UVScale >> }

\* unit normals: Dot(v, v) = den2
UnitNormals ==
    { Sv(<< 0, 1, 0 >>, 1), Sv(<< 1, 0, 0 >>, 1), Sv(<< 3, 4, 0 >>, 25),
      Sv(<< 1, 1, 0 >>, 2), Sv(<< 19, 1, 1 >>, 363) }

InitTangents ==
    /\ pc = "tangent_loop"
    /\ dimensions = None
    /\ subdivisions = 0
    /\ width = 0
    /\ height = 0
    /\ CARPET_THICKNESS = 0
    /\ DISPLACEMENT_SCALE = 0
    /\ scale = 0
    /\ plane_vertices = << >>
    /\ height_map = << >>
    /\ \E vs \in TangentVertexSets : vertices = SeqToArr([i \in 1 .. 4 |-> VMul(PosScale, vs[i])])
    /\ faces \in TangentFaceLists
    /\ uvs \in [0 .. 3 -> TangentUVs]
    /\ uvs[0][1] = uvs[0][2]
    /\ \E n0 \in UnitNormals, n1 \in UnitNormals :
          normals = [i \in 0 .. 3 |-> IF i = 0 THEN n0 ELSE n1]
    /\ tangents = [i \in 0 .. 3 |-> RatZero]
    /\ bitangents = [i \in 0 .. 3 |-> RatZero]
    /\ face_idx = 0
    /\ valid_tangents = << >>
    /\ vertex_idx = 0
    /\ ExportInit
    /\ error = NoError
    /\ log = << TangentsEntryLog >>
    /\ IdleService

NextTangents ==
    \/ TangentLoop
    \/ TangentNormalize
    \/ GramSchmidt
    \/ TangentsReturn

SpecTangents == InitTangents /\ [][NextTangents]_vars

-----------------------------------------------------------------------------
(* process_carpet on dimensions that are not positive *)

InitInvalid == InitWith(InvalidDimensions)

SpecInvalid == InitInvalid /\ [][Next]_vars

-----------------------------------------------------------------------------
(* export_glb_with_pygltflib on its own: a mesh whose arrays any caller built, *)
(* its vertex normals present, its attribute arrays of any small lengths       *)

\* an array of n rows
Rows(n, row) == [k \in 0 .. n - 1 |-> row]

InitExport ==
    /\ pc = "mesh"
    /\ dimensions = None
    /\ subdivisions = 0
    /\ width = DefaultWidth
    /\ height = DefaultHeight
    /\ CARPET_THICKNESS = DefaultThickness
    /\ DISPLACEMENT_SCALE = 0
    /\ scale = 0
    /\ plane_vertices = << >>
    /\ \E n \in 1 .. MaxS : /\ vertices = Rows(n, Zero3)
                            /\ normals = Rows(n, Sv(<< 0, 1, 0 >>, 1))
    /\ \E n \in 1 .. MaxS : uvs = Rows(n, << 0, 0 >>)
    /\ \E n \in 1 .. MaxS : tangents = Rows(n, Sv(<< 1, 0, 0 >>, 1))
    /\ faces = << << 0, 0, 0 >> >>
    /\ height_map = << >>
    /\ bitangents = << >>
    /\ face_idx = 0
    /\ valid_tangents = << >>
    /\ vertex_idx = 0
    /\ ExportInit
    /\ error = NoError
    /\ log = << >>
    /\ IdleService

NextExport ==
    \/ LoadTexturesFails
    \/ ExportPrepare
    \/ ExportMeshData
    \/ EncodeTexturesFails
    \/ ExportTextures
    \/ ExportSave
    \/ ExportSaveFails

SpecExport == InitExport /\ [][NextExport]_vars

-----------------------------------------------------------------------------
(* process_carpet in the threads of the executor: two calls, whose statements *)
(* interleave; Config is the one class shared by the threads                  *)

Calls == { 1, 2 }
Other(c) == 3 - c

\* a path: directory, the parts of the stem, suffix
FilePath(dir, stem, suffix) == [dir |-> dir, stem |-> stem, suffix |-> suffix]
NoPath == FilePath("", << >>, "")

\* Path(p).stem
Stem(p) == p.stem

\* generate_basecolor: input_name = Path(corrected_image).stem,
\* Config.get_basecolor_path(f"{input_name}_basecolor.png")
BasecolorPath(corrected_image) ==
    FilePath("basecolor", Stem(corrected_image) \o << "_basecolor" >>, ".png")

\* generate_normal_map: Config.get_normal_path(f"{output_name}_normal.png")
NormalPath(output_name) == FilePath("normal", << output_name, "_normal" >>, ".png")

\* variant: the USDZ written beside the GLB
UsdzPathBesideGlb(output_name) == FilePath("glb_exports", << output_name >>, ".usdz")

\* Config.get_glb_path(f"{output_name}.glb"), Config.get_usdz_path(f"{output_name}.usdz")
GlbPath(output_name) == FilePath("glb_exports", << output_name >>, ".glb")
UsdzPath(output_name) == FilePath("usdz_exports", << output_name >>, ".usdz")

\* a file is written whole, replacing what the path held; data names the call
\* whose image the bytes come from
WriteFile(fs, path, data) ==
    { f \in fs : f.path # path } \cup { [path |-> path, data |-> data] }
ReadFile(fs, path) == (CHOOSE f \in fs : f.path = path).data

\* file names of the images and output names of the requests
InputNames == { "carpet", "rug" }
OutputNames == { "carpet_0a1b2c3d", "carpet_4e5f6a7b" }

\* the dimensions of a request: any width, the longest length, 5 or 10 mm
CallDimensions ==
    { d \in Dimensions : d.length = MaxDim /\ d.thickness \in { 5, 10 } } \cup { None }

NoMesh == [width |-> 0, height |-> 0, scale |-> 0]

\* the images of two calls are two files, whatever their names
CallArgs(c) ==
    { [pc |-> "called",
       input_image_path |-> FilePath(<< "images", c >>, << n >>, ".jpg"),
       output_name |-> o,
       dimensions |-> d,
       basecolor_path |-> NoPath,
       normal_map_path |-> NoPath,
       mesh |-> NoMesh,
       embedded |-> << >>] : n \in InputNames, o \in OutputNames, d \in CallDimensions }

pipelineVars == << pc, dimensions, subdivisions, DISPLACEMENT_SCALE, height_map, meshVars,
                  tangentVars, exportVars, error, log, requests, conversion >>

InitCalls ==
    /\ pc = "service"
    /\ dimensions = None
    /\ subdivisions = 0
    /\ width = DefaultWidth
    /\ height = DefaultHeight
    /\ CARPET_THICKNESS = DefaultThickness
    /\ DISPLACEMENT_SCALE \in Scales
    /\ scale = 0
    /\ plane_vertices = << >>
    /\ vertices = << >>
    /\ faces = << >>
    /\ uvs = << >>
    /\ height_map = << >>
    /\ normals = << >>
    /\ tangents = << >>
    /\ bitangents = << >>
    /\ face_idx = 0
    /\ valid_tangents = << >>
    /\ vertex_idx = 0
    /\ ExportInit
    /\ \E a1 \in CallArgs(1), a2 \in CallArgs(2) : calls = << a1, a2 >>
    /\ files = { }
    /\ error = NoError
    /\ log = << >>
    /\ requests = << >>
    /\ conversion = NoConversion

\* "if dimensions:" is false
SkipDimensions(c) ==
    /\ calls[c].pc = "called"
    /\ calls[c].dimensions = None
    /\ calls' = [calls EXCEPT ![c].pc = "configured"]
    /\ UNCHANGED << width, height, CARPET_THICKNESS, files, pipelineVars >>

\* Config.CARPET_WIDTH = dimensions['width']
SetWidth(c) ==
    /\ calls[c].pc = "called"
    /\ calls[c].dimensions # None
    /\ width' = calls[c].dimensions.width
    /\ calls' = [calls EXCEPT ![c].pc = "width_set"]
    /\ UNCHANGED << height, CARPET_THICKNESS, files, pipelineVars >>

\* Config.CARPET_HEIGHT = dimensions['length']
SetHeight(c) ==
    /\ calls[c].pc = "width_set"
    /\ height' = calls[c].dimensions.length
    /\ calls' = [calls EXCEPT ![c].pc = "height_set"]
    /\ UNCHANGED << width, CARPET_THICKNESS, files, pipelineVars >>

\* Config.CARPET_THICKNESS = dimensions['thickness'] / 1000.0
SetThickness(c) ==
    /\ calls[c].pc = "height_set"
    /\ CARPET_THICKNESS' = ThicknessOfMm(calls[c].dimensions.thickness)
    /\ calls' = [calls EXCEPT ![c].pc = "configured"]
    /\ UNCHANGED << width, height, files, pipelineVars >>

\* corrected_path = input_image_path (skip_perspective, as the service calls it);
\* basecolor_path = generate_basecolor(corrected_path, output_name=output_name)
GenerateBasecolor(c) ==
    /\ calls[c].pc = "configured"
    /\ LET path == BasecolorPath(calls[c].input_image_path)
       IN  /\ files' = WriteFile(files, path, c)
           /\ calls' = [calls EXCEPT ![c].pc = "basecolor", ![c].basecolor_path = path]
    /\ UNCHANGED << width, height, CARPET_THICKNESS, pipelineVars >>

\* normal_map_path = generate_normal_map(corrected_path, output_name=output_name)
GenerateNormalMap(c) ==
    /\ calls[c].pc = "basecolor"
    /\ LET path == NormalPath(calls[c].output_name)
       IN  /\ files' = WriteFile(files, path, c)
           /\ calls' = [calls EXCEPT ![c].pc = "normal", ![c].normal_map_path = path]
    /\ UNCHANGED << width, height, CARPET_THICKNESS, pipelineVars >>

\* create_carpet_mesh: create_subdivided_plane(width=Config.CARPET_WIDTH,
\* height=Config.CARPET_HEIGHT, ...)
CallCreatePlane(c) ==
    /\ calls[c].pc = "normal"
    /\ calls' = [calls EXCEPT ![c].pc = "plane",
                              ![c].mesh.width = width,
                              ![c].mesh.height = height]
    /\ UNCHANGED << width, height, CARPET_THICKNESS, files, pipelineVars >>

\* create_carpet_mesh: displacement_scale from Config.CARPET_THICKNESS
CallDisplace(c) ==
    /\ calls[c].pc = "plane"
    /\ calls' = [calls EXCEPT ![c].pc = "mesh",
                              ![c].mesh.scale =
                                  DisplacementScale(DISPLACEMENT_SCALE, CARPET_THICKNESS)]
    /\ UNCHANGED << width, height, CARPET_THICKNESS, files, pipelineVars >>

\* export_glb: Image.open of the two texture paths, the GLB saved at its path
CallExportGlb(c) ==
    /\ calls[c].pc = "mesh"
    /\ calls' = [calls EXCEPT ![c].pc = "glb",
                              ![c].embedded = << ReadFile(files, calls[c].basecolor_path),
                                                 ReadFile(files, calls[c].normal_map_path) >>]
    /\ files' = WriteFile(files, GlbPath(calls[c].output_name), c)
    /\ UNCHANGED << width, height, CARPET_THICKNESS, pipelineVars >>

\* export_usdz: the package written at its path; process_carpet returns
CallExportUsdz(c) ==
    /\ calls[c].pc = "glb"
    /\ calls' = [calls EXCEPT ![c].pc = "done"]
    /\ files' = WriteFile(files, UsdzPath(calls[c].output_name), c)
    /\ UNCHANGED << width, height, CARPET_THICKNESS, pipelineVars >>

NextCalls ==
    \E c \in Calls :
        \/ SkipDimensions(c)
        \/ SetWidth(c)
        \/ SetHeight(c)
        \/ SetThickness(c)
        \/ GenerateBasecolor(c)
        \/ GenerateNormalMap(c)
        \/ CallCreatePlane(c)
        \/ CallDisplace(c)
        \/ CallExportGlb(c)
        \/ CallExportUsdz(c)

SpecCalls == InitCalls /\ [][NextCalls]_vars

-----------------------------------------------------------------------------
(* export_usdz, convert_glb_to_usdz and create_fallback_usdz on the files of *)
(* the output directories; what pxr does is any of its outcomes              *)

\* the variables of the mesh pipeline at rest, while the service or a
\* conversion on its own runs
NoPipeline ==
    /\ pc = "service"
    /\ dimensions = None
    /\ subdivisions = 0
    /\ width = DefaultWidth
    /\ height = DefaultHeight
    /\ CARPET_THICKNESS = DefaultThickness
    /\ DISPLACEMENT_SCALE = 0
    /\ scale = 0
    /\ plane_vertices = << >>
    /\ vertices = << >>
    /\ faces = << >>
    /\ uvs = << >>
    /\ height_map = << >>
    /\ normals = << >>
    /\ tangents = << >>
    /\ bitangents = << >>
    /\ face_idx = 0
    /\ valid_tangents = << >>
    /\ vertex_idx = 0
    /\ ExportInit
    /\ error = NoError
    /\ log = << >>

\* everything but the files and the conversion
conversionFrame == << pc, configVars, height_map, meshVars, tangentVars, exportVars,
                     error, log, calls, requests >>

\* usdz_output_path.replace('.usdz', '.usda')
TempUsdaPath(usdz_path) == [usdz_path EXCEPT !.suffix = ".usda"]

Exists(fs, path) == \E f \in fs : f.path = path
RemoveFile(fs, path) == { f \in fs : f.path # path }

\* glob.glob(str(usdz_path).replace('.usdz', '.*')): the files of the directory
\* of the USDZ whose name is the output name and any suffix
GlobTemp(fs, usdz_path) ==
    { f \in fs : f.path.dir = usdz_path.dir /\ f.path.stem = usdz_path.stem }

\* not temp_file.endswith('.usdz')
Removable(f) == f.path.suffix # ".usdz"

\* variant: the error of the fallback raised
RaiseFallbackError(e, fallback_error) == fallback_error

\* except Exception as fallback_error: ... raise e
RaiseE(e, fallback_error) == e

\* the suffix of the file handed to the converter
GlbSuffixes == { ".glb", ".gltf", ".obj" }

\* what the directory of the USDZ may hold of an earlier conversion
StaleSuffixes == { ".usda", ".usdz", ".tmp" }

InitUsdz ==
    /\ NoPipeline
    /\ calls = << >>
    /\ requests = << >>
    /\ \E o \in OutputNames, x \in GlbSuffixes, there \in BOOLEAN,
          stale \in SUBSET StaleSuffixes :
          LET glb_path == [GlbPath(o) EXCEPT !.suffix = x]
          IN  /\ conversion = [pc |-> "export_usdz", glb_path |-> glb_path,
                               usdz_path |-> UsdzPath(o), e |-> NoError,
                               fallback_error |-> NoError, raised |-> NoError]
              /\ files = (IF there THEN { [path |-> glb_path, data |-> "glb"] } ELSE { })
                            \cup { [path |-> [UsdzPath(o) EXCEPT !.suffix = y], data |-> "stale"] :
                                     y \in stale }

\* if not os.path.exists(glb_path): raise FileNotFoundError
ConvertInputMissing ==
    /\ conversion.pc = "export_usdz"
    /\ ~Exists(files, conversion.glb_path)
    /\ conversion' = [conversion EXCEPT !.pc = "cleanup",
                                        !.raised = "FileNotFoundError: Input file not found"]
    /\ UNCHANGED << files, conversionFrame >>

\* if not glb_path.lower().endswith((".glb", ".gltf")): raise ValueError
ConvertInputNotGlb ==
    /\ conversion.pc = "export_usdz"
    /\ Exists(files, conversion.glb_path)
    /\ conversion.glb_path.suffix \notin { ".glb", ".gltf" }
    /\ conversion' = [conversion EXCEPT !.pc = "cleanup",
                                        !.raised = "ValueError: Input must be a .glb or .gltf file"]
    /\ UNCHANGED << files, conversionFrame >>

\* the try block is entered; a temporary file left there is removed, unless
\* os.remove raises, which is printed and passed over
PrimaryRemoveStale ==
    /\ conversion.pc = "export_usdz"
    /\ Exists(files, conversion.glb_path)
    /\ conversion.glb_path.suffix \in { ".glb", ".gltf" }
    /\ files' \in { files, RemoveFile(files, TempUsdaPath(conversion.usdz_path)) }
    /\ conversion' = [conversion EXCEPT !.pc = "primary_stage"]
    /\ UNCHANGED conversionFrame

\* Usd.Stage.CreateNew, DefinePrim, AddReference(glb_path), stage.Save()
PrimaryStage ==
    /\ conversion.pc = "primary_stage"
    /\ files' = WriteFile(files, TempUsdaPath(conversion.usdz_path), "usda")
    /\ conversion' = [conversion EXCEPT !.pc = "primary_package"]
    /\ UNCHANGED conversionFrame

\* the stage is not created or not saved: RuntimeError, or the error of pxr
PrimaryStageFails ==
    /\ conversion.pc = "primary_stage"
    /\ files' \in { files, WriteFile(files, TempUsdaPath(conversion.usdz_path), "partial") }
    /\ conversion' = [conversion EXCEPT !.pc = "fallback",
                                        !.e = "RuntimeError: Failed to create USD stage"]
    /\ UNCHANGED conversionFrame

\* UsdUtils.CreateNewUsdzPackage succeeds; os.remove of the temporary file, an
\* OSError of which is passed over
PrimaryPackage ==
    /\ conversion.pc = "primary_package"
    /\ LET packaged == WriteFile(files, conversion.usdz_path, "usdz")
       IN  files' \in { packaged, RemoveFile(packaged, TempUsdaPath(conversion.usdz_path)) }
    /\ conversion' = [conversion EXCEPT !.pc = "converted"]
    /\ UNCHANGED conversionFrame

\* CreateNewUsdzPackage returns False or raises
PrimaryPackageFails ==
    /\ conversion.pc = "primary_package"
    /\ files' \in { files, WriteFile(files, conversion.usdz_path, "partial") }
    /\ conversion' = [conversion EXCEPT !.pc = "fallback",
                                        !.e = "RuntimeError: Failed to create USDZ package"]
    /\ UNCHANGED conversionFrame

\* create_fallback_usdz: Usd.Stage.CreateNew, DefinePrim, stage.Save()
FallbackStage ==
    /\ conversion.pc = "fallback"
    /\ files' = WriteFile(files, TempUsdaPath(conversion.usdz_path), "usda")
    /\ conversion' = [conversion EXCEPT !.pc = "fallback_package"]
    /\ UNCHANGED conversionFrame

\* create_fallback_usdz raises on the stage; convert_glb_to_usdz raises e
FallbackStageFails ==
    /\ conversion.pc = "fallback"
    /\ files' \in { files, WriteFile(files, TempUsdaPath(conversion.usdz_path), "partial") }
    /\ LET fallback_error == "RuntimeError: Failed to create fallback USD stage"
       IN  conversion' = [conversion EXCEPT !.pc = "cleanup",
                                            !.fallback_error = fallback_error,
                                            !.raised = RaiseE(conversion.e, fallback_error)]
    /\ UNCHANGED conversionFrame

\* create_fallback_usdz packages and removes its temporary file
FallbackPackage ==
    /\ conversion.pc = "fallback_package"
    /\ LET packaged == WriteFile(files, conversion.usdz_path, "usdz")
       IN  files' \in { packaged, RemoveFile(packaged, TempUsdaPath(conversion.usdz_path)) }
    /\ conversion' = [conversion EXCEPT !.pc = "converted"]
    /\ UNCHANGED conversionFrame

\* create_fallback_usdz raises on the package; convert_glb_to_usdz raises e
FallbackPackageFails ==
    /\ conversion.pc = "fallback_package"
    /\ files' \in { files, WriteFile(files, conversion.usdz_path, "partial") }
    /\ LET fallback_error == "RuntimeError: Failed to create fallback USDZ package"
       IN  conversion' = [conversion EXCEPT !.pc = "cleanup",
                                            !.fallback_error = fallback_error,
                                            !.raised = RaiseE(conversion.e, fallback_error)]
    /\ UNCHANGED conversionFrame

\* export_usdz after convert_glb_to_usdz returned: os.path.exists(usdz_path),
\* else RuntimeError("USDZ conversion failed - file not created")
VerifyUsdz ==
    /\ conversion.pc = "converted"
    /\ conversion' =
          IF Exists(files, conversion.usdz_path)
          THEN [conversion EXCEPT !.pc = "returned"]
          ELSE [conversion EXCEPT !.pc = "cleanup",
                                  !.raised = "RuntimeError: USDZ conversion failed - file not created"]
    /\ UNCHANGED << files, conversionFrame >>

\* except Exception in export_usdz: each file of the glob that does not end in
\* .usdz is removed, unless os.remove raises, which is logged; then raise
CleanupTemporary ==
    /\ conversion.pc = "cleanup"
    /\ \E kept \in SUBSET { f \in GlobTemp(files, conversion.usdz_path) : Removable(f) } :
          files' = { f \in files : f \notin GlobTemp(files, conversion.usdz_path)
                                    \/ ~Removable(f) \/ f \in kept }
    /\ conversion' = [conversion EXCEPT !.pc = "raised"]
    /\ UNCHANGED conversionFrame

NextUsdz ==
    \/ ConvertInputMissing
    \/ ConvertInputNotGlb
    \/ PrimaryRemoveStale
    \/ PrimaryStage
    \/ PrimaryStageFails
    \/ PrimaryPackage
    \/ PrimaryPackageFails
    \/ FallbackStage
    \/ FallbackStageFails
    \/ FallbackPackage
    \/ FallbackPackageFails
    \/ VerifyUsdz
    \/ CleanupTemporary

SpecUsdz == InitUsdz /\ [][NextUsdz]_vars

-----------------------------------------------------------------------------
(* generate_model_with_ar_link: two requests on the event loop, each with its *)
(* generation in a thread of the executor; a request yields at each await     *)

Requests == { 1, 2 }

\* everything but the files and the requests
requestFrame == << pc, configVars, height_map, meshVars, tangentVars, exportVars,
                  error, log, calls, conversion >>

\* the names of the uploaded images
UploadSuffixes == { ".jpg", ".gif" }
UploadFilenames == { FilePath("", << n >>, x) : n \in InputNames, x \in UploadSuffixes }

\* validate_file_type: the suffix is one of .jpg, .jpeg, .png
ValidateFileType(filename) == filename.suffix \in { ".jpg", ".jpeg", ".png" }

\* str(uuid.uuid4())[:8], a fresh value for each request
Uuid(r) == << "uuid", r >>

\* generate_unique_filename: f"{base_name}_{unique_id}{file_ext}"
GenerateUniqueFilename(original, unique_id) ==
    FilePath("", Stem(original) \o << "_", unique_id >>, original.suffix)

\* glb_filename of the route: generate_unique_filename(f"{Path(image.filename).stem}.glb")
GlbFilename(filename, r) ==
    GenerateUniqueFilename(FilePath("", Stem(filename), ".glb"), Uuid(r))

\* save_uploaded_file: file_path = self.uploads_dir / filename
UploadPath(filename) == FilePath("uploads", Stem(filename), filename.suffix)

\* _run_model_generation: output_name = Path(output_filename).stem, and the paths
\* process_carpet returns for it
GeneratedGlbPath(glb_filename) == FilePath("glb_exports", Stem(glb_filename), ".glb")
GeneratedUsdzPath(glb_filename) == FilePath("usdz_exports", Stem(glb_filename), ".usdz")

\* the content of a file: its kind and the request whose image it comes from
Content(kind, of) == [kind |-> kind, of |-> of]

\* variant: the image left in place when the request fails
KeepFile(fs, file_path) == fs

\* cleanup_file: if os.path.exists(file_path): os.unlink(file_path)
CleanupFile(fs, file_path) == RemoveFile(fs, file_path)

\* cleanup_generated_files: unlink of the GLB and of the USDZ that exist
CleanupGeneratedFiles(fs, glb_path, usdz_path) ==
    RemoveFile(RemoveFile(fs, glb_path), usdz_path)

InitUpload ==
    /\ NoPipeline
    /\ calls = << >>
    /\ conversion = NoConversion
    /\ files = { }
    /\ \E f1 \in UploadFilenames, f2 \in UploadFilenames :
          requests = [r \in Requests |->
                        [pc |-> "received",
                         filename |-> IF r = 1 THEN f1 ELSE f2,
                         glb_filename |-> NoPath,
                         temp_image_path |-> NoPath,
                         images |-> << >>,
                         success |-> FALSE,
                         tasks |-> << >>,
                         status |-> 0]]

\* validate_file_type fails: HTTPException(400)
RejectUpload(r) ==
    /\ requests[r].pc = "received"
    /\ ~ValidateFileType(requests[r].filename)
    /\ requests' = [requests EXCEPT ![r].pc = "done", ![r].status = 400]
    /\ UNCHANGED << files, requestFrame >>

\* the checks pass, the unique name is drawn: await image.read()
ReadUpload(r) ==
    /\ requests[r].pc = "received"
    /\ ValidateFileType(requests[r].filename)
    /\ requests' = [requests EXCEPT
                       ![r].pc = "read",
                       ![r].glb_filename = GlbFilename(requests[r].filename, r)]
    /\ UNCHANGED << files, requestFrame >>

\* save_uploaded_file, then generate_model_from_image up to its
\* await loop.run_in_executor(...)
SaveUploadedFile(r) ==
    /\ requests[r].pc = "read"
    /\ files' = WriteFile(files, UploadPath(requests[r].filename), Content("image", r))
    /\ requests' = [requests EXCEPT
                       ![r].pc = "generating",
                       ![r].temp_image_path = UploadPath(requests[r].filename)]
    /\ UNCHANGED requestFrame

\* in the thread: generate_basecolor reads the image; process_carpet raises
\* when the file is not there
GenerateBasecolorRead(r) ==
    /\ requests[r].pc = "generating"
    /\ requests' =
          IF Exists(files, requests[r].temp_image_path)
          THEN [requests EXCEPT
                   ![r].pc = "basecolor",
                   ![r].images = << ReadFile(files, requests[r].temp_image_path) >>]
          ELSE [requests EXCEPT ![r].pc = "generated", ![r].success = FALSE]
    /\ UNCHANGED << files, requestFrame >>

\* in the thread: generate_normal_map reads the image again
GenerateNormalMapRead(r) ==
    /\ requests[r].pc = "basecolor"
    /\ requests' =
          IF Exists(files, requests[r].temp_image_path)
          THEN [requests EXCEPT
                   ![r].pc = "normal",
                   ![r].images = Append(requests[r].images,
                                        ReadFile(files, requests[r].temp_image_path))]
          ELSE [requests EXCEPT ![r].pc = "generated", ![r].success = FALSE]
    /\ UNCHANGED << files, requestFrame >>

\* in the thread: generate_carpet_model writes the GLB and the USDZ; the
\* service finds the GLB and returns success
GenerateModel(r) ==
    /\ requests[r].pc = "normal"
    /\ files' = WriteFile(WriteFile(files, GeneratedGlbPath(requests[r].glb_filename),
                                    Content("glb", requests[r].images[1].of)),
                          GeneratedUsdzPath(requests[r].glb_filename),
                          Content("usdz", requests[r].images[1].of))
    /\ requests' = [requests EXCEPT ![r].pc = "generated", ![r].success = TRUE]
    /\ UNCHANGED requestFrame

\* in the thread: process_carpet raises, before the GLB is written or after it
\* (the USDZ conversion); the service returns success False
GenerateModelFails(r) ==
    /\ requests[r].pc = "normal"
    /\ files' \in { files,
                     WriteFile(files, GeneratedGlbPath(requests[r].glb_filename),
                               Content("glb", requests[r].images[1].of)) }
    /\ requests' = [requests EXCEPT ![r].pc = "generated", ![r].success = FALSE]
    /\ UNCHANGED requestFrame

\* the route resumes with a failed generation: HTTPException(500), and the
\* inner except cleans up the image
GenerationFailed(r) ==
    /\ requests[r].pc = "generated"
    /\ ~requests[r].success
    /\ files' = CleanupFile(files, requests[r].temp_image_path)
    /\ requests' = [requests EXCEPT ![r].pc = "done", ![r].status = 500]
    /\ UNCHANGED requestFrame

\* the route resumes with a generated model, reads the GLB:
\* await supabase_service.upload_file(...)
UploadModel(r) ==
    /\ requests[r].pc = "generated"
    /\ requests[r].success
    /\ requests' = [requests EXCEPT ![r].pc = "uploading"]
    /\ UNCHANGED << files, requestFrame >>

\* the upload succeeded: the two cleanups are scheduled, the response returned
UploadSucceeded(r) ==
    /\ requests[r].pc = "uploading"
    /\ requests' = [requests EXCEPT
                       ![r].pc = "responded",
                       ![r].status = 200,
                       ![r].tasks = << "cleanup_file", "cleanup_generated_files" >>]
    /\ UNCHANGED << files, requestFrame >>

\* the upload failed or raised: HTTPException(500), and the inner except
\* cleans up the image
UploadFailed(r) ==
    /\ requests[r].pc = "uploading"
    /\ files' = CleanupFile(files, requests[r].temp_image_path)
    /\ requests' = [requests EXCEPT ![r].pc = "done", ![r].status = 500]
    /\ UNCHANGED requestFrame

\* background task: file_manager.cleanup_file(temp_image_path)
BackgroundCleanupFile(r) ==
    /\ requests[r].pc = "responded"
    /\ Head(requests[r].tasks) = "cleanup_file"
    /\ files' = RemoveFile(files, requests[r].temp_image_path)
    /\ requests' = [requests EXCEPT ![r].tasks = Tail(requests[r].tasks)]
    /\ UNCHANGED requestFrame

\* background task: model_generator.cleanup_generated_files(glb_path, usdz_path)
BackgroundCleanupGenerated(r) ==
    /\ requests[r].pc = "responded"
    /\ Head(requests[r].tasks) = "cleanup_generated_files"
    /\ files' = CleanupGeneratedFiles(files, GeneratedGlbPath(requests[r].glb_filename),
                                      GeneratedUsdzPath(requests[r].glb_filename))
    /\ requests' = [requests EXCEPT ![r].pc = "done", ![r].tasks = Tail(requests[r].tasks)]
    /\ UNCHANGED requestFrame

\* the steps of a request
Handle(r) ==
    \/ RejectUpload(r)
    \/ ReadUpload(r)
    \/ SaveUploadedFile(r)
    \/ GenerateBasecolorRead(r)
    \/ GenerateNormalMapRead(r)
    \/ GenerateModel(r)
    \/ GenerateModelFails(r)
    \/ GenerationFailed(r)
    \/ UploadModel(r)
    \/ UploadSucceeded(r)
    \/ UploadFailed(r)
    \/ BackgroundCleanupFile(r)
    \/ BackgroundCleanupGenerated(r)

NextUpload == \E r \in Requests : Handle(r)

SpecUpload == InitUpload /\ [][NextUpload]_vars

\* the event loop resumes a coroutine that can run, the executor runs each job
\* to its end, the storage call answers, the background tasks are run
SpecUploadFair == SpecUpload /\ \A r \in Requests : WF_vars(Handle(r))

-----------------------------------------------------------------------------
(* Properties of create_subdivided_plane *)

PlaneBuilt == pc \notin { "called", "start", "loaded", "failed" } /\ subdivisions >= 2

\* C1: for every subdivision count S >= 2 and any width and height, the plane has
\* exactly S*S vertices, S*S UV pairs and 2*(S-1)*(S-1) faces of three indices each
C1_PlaneCounts ==
    PlaneBuilt =>
        /\ ArrLen(vertices) = subdivisions * subdivisions
        /\ ArrLen(uvs) = subdivisions * subdivisions
        /\ Len(faces) = 2 * (subdivisions - 1) * (subdivisions - 1)
        /\ \A k \in 1 .. Len(faces) : Len(faces[k]) = 3

C1_Witness ==
    /\ pc = "plane"
    /\ subdivisions = 3
    /\ width # height
    /\ ArrLen(vertices) = 9
    /\ Len(faces) = 8

\* C2: for every S >= 2 every vertex index of every face lies in 0 .. S*S-1, and no
\* value of the flattened index array of the export exceeds the vertex count - 1
C2_IndicesInRange ==
    PlaneBuilt =>
        /\ \A k \in 1 .. Len(faces) : \A c \in 1 .. 3 :
              faces[k][c] \in 0 .. subdivisions * subdivisions - 1
        /\ \A k \in 1 .. Len(indices) : indices[k] \in 0 .. ArrLen(vertices) - 1

C2_Witness ==
    /\ pc = "arrays"
    /\ subdivisions = 3
    /\ Len(indices) = 24
    /\ \E k \in 1 .. Len(indices) : indices[k] = ArrLen(vertices) - 1
    /\ \E k \in 1 .. Len(indices) : indices[k] = 0

-----------------------------------------------------------------------------
(* Properties of export_glb_with_pygltflib *)

MeshDataExported == pc \in { "mesh_data", "document", "exported" }
DocumentBuilt == pc \in { "document", "exported" }

\* the arrays the five accessors describe, and the bytes of one element of each
AccessorArrayLens ==
    << ArrLen(vertices), ArrLen(uvs), ArrLen(normals), ArrLen(tangents_vec4), Len(indices) >>
AccessorElementSizes == << 12, 8, 12, 16, 4 >>

\* C3: each of the five accessors (POSITION, TEXCOORD_0, NORMAL, TANGENT, indices)
\* declares the number of elements of its array (the vertex count for the four
\* attributes, 3 x face count for the indices), and the byteLength of the bufferView
\* it references is count x element size (12, 8, 12, 16, 4 bytes)
C3_AccessorCounts ==
    MeshDataExported =>
        /\ Len(accessors) = 5
        /\ \A k \in 1 .. 5 :
              /\ accessors[k].count = AccessorArrayLens[k]
              /\ accessors[k].count = IF k = 5 THEN 3 * Len(faces) ELSE ArrLen(vertices)
              /\ buffer_views[accessors[k].bufferView + 1].byteLength
                    = accessors[k].count * AccessorElementSizes[k]

C3_Witness ==
    /\ pc = "exported"
    /\ subdivisions = 3
    /\ accessors[1].count = 9
    /\ accessors[5].count = 24
    /\ buffer_views[4].byteLength = 144

\* C4: every bufferView of the exported document, the two image bufferViews
\* included, starts at a byteOffset that is a multiple of 4
C4_ViewsAligned ==
    DocumentBuilt => \A k \in 1 .. Len(buffer_views) : buffer_views[k].byteOffset % 4 = 0

\* the order of the regions of the single buffer
BufferLayout ==
    << "vertices", "uvs", "normals", "tangents_vec4", "indices",
       "basecolor_data", "normal_data" >>

ViewEnd(bv) == bv.byteOffset + bv.byteLength

\* C5: the seven bufferViews describe, in this order, positions, UVs, normals,
\* tangents, indices, basecolor PNG and normal-map PNG; each starts at or after the
\* end of the previous one, the last ends at or before buffers[0].byteLength, and
\* that equals the length of the blob, textures included, when the file is saved
C5_BufferLayout ==
    DocumentBuilt =>
        /\ Len(buffer_views) = 7
        /\ Len(binary_data) = 7
        /\ \A k \in 1 .. 7 :
              /\ binary_data[k].data = BufferLayout[k]
              /\ buffer_views[k].byteOffset = BufLen(SubSeq(binary_data, 1, k - 1))
              /\ buffer_views[k].byteLength = binary_data[k].nbytes
              /\ buffer_views[k].byteLength > 0
        /\ \A k \in 1 .. 6 : ViewEnd(buffer_views[k]) <= buffer_views[k + 1].byteOffset
        /\ ViewEnd(buffer_views[7]) <= buffer_len
        /\ buffer_len = BinaryBlobLen(glb_data, binary_data)
        /\ pc = "exported" => glb_file.bin_chunk.data = buffer_len

C5_Witness ==
    /\ pc = "exported"
    /\ subdivisions = 3
    /\ png = << 3, 2 >>
    /\ buffer_views[7].byteOffset = 9 * 48 + 24 * 4 + 3
    /\ glb_file.bin_chunk.data = 9 * 48 + 24 * 4 + 5

-----------------------------------------------------------------------------
(* Properties of compute_tangents *)

\* C7: a vertex whose accumulated tangent is longer than 1e-8, with a unit normal,
\* gets a tangent orthogonal to its normal, on the Gram-Schmidt branch and on the
\* cross-product branch
C7_TangentOrthogonal ==
    pc \in { "gram_schmidt", "tangents_done" } =>
        \A i \in DOMAIN tangents :
            (i < vertex_idx /\ valid_tangents[i] /\ IsUnit(normals[i])) =>
                /\ tangents[i].v # Zero3
                /\ tangents[i].den2 > 0
                /\ Dot(tangents[i].v, normals[i].v) = 0

\* one triangle: its three vertices accumulate the same tangent, still seen at
\* vertex 2; vertex 0 (normal parallel to it) took the cross-product branch and
\* vertex 1 (normal oblique to it) the Gram-Schmidt branch
C7_Witness ==
    /\ pc = "gram_schmidt"
    /\ vertex_idx = 2
    /\ Len(faces) = 1
    /\ valid_tangents[0] /\ valid_tangents[1] /\ valid_tangents[2]
    /\ Cross(tangents[2].v, normals[0].v) = Zero3
    /\ Cross(tangents[2].v, normals[1].v) # Zero3
    /\ Dot(tangents[2].v, normals[1].v) # 0
    /\ Dot(tangents[0].v, normals[0].v) = 0
    /\ Dot(tangents[1].v, normals[1].v) = 0
    /\ IsUnit(tangents[0]) /\ IsUnit(tangents[1])

\* C8: every vertex carries a tangent whose xyz part is a unit vector, the vertices
\* with a negligible accumulated tangent included
C8_EveryTangentUnit ==
    pc = "tangents_done" => \A i \in DOMAIN tangents : IsUnit(tangents[i])

\* C9: a triangle whose UV determinant d has |d| < 1e-8 (d = 0 for the whole-number
\* UVs of the model) raises nothing and adds nothing to the tangent or bitangent
\* accumulator of any vertex, so what the other triangles added stays as it is
C9_DegenerateSkipped ==
    [][(/\ pc = "tangent_loop"
        /\ face_idx < Len(faces)
        /\ UVDenominator(uvs, faces[face_idx + 1]) = 0)
        => (/\ tangents' = tangents
            /\ bitangents' = bitangents
            /\ face_idx' = face_idx + 1
            /\ pc' = "tangent_loop")]_vars

\* two triangles, the first with two vertices on one UV: vertex 0, in the first
\* triangle only, has nothing; vertices 1 and 3 hold what the second triangle added
C9_Witness ==
    /\ pc = "tangent_loop"
    /\ Len(faces) = 2
    /\ face_idx = 2
    /\ uvs[0] = uvs[1]
    /\ UVDenominator(uvs, faces[1]) = 0
    /\ UVDenominator(uvs, faces[2]) # 0
    /\ tangents[0] = RatZero /\ bitangents[0] = RatZero
    /\ tangents[3] # RatZero
    /\ tangents[1] = tangents[3] /\ bitangents[1] = bitangents[3]

-----------------------------------------------------------------------------
(* Winding of the plane *)

-----------------------------------------------------------------------------
(* The grid of create_subdivided_plane *)

\* C11: for every S >= 2 the vertex of index i*S + j (row i, column j) has position
\* (-W/2 + j*W/(S-1), 0, -H/2 + i*H/(S-1)) and UV (j/(S-1), 1 - i/(S-1)); for S = 3
\* and W = H = 1 the UVs are (0,1), (0.5,1), (1,1), (0,0.5), ... in index order
C11_PlaneGrid ==
    PlaneBuilt =>
        /\ \A i \in 0 .. subdivisions - 1 : \A j \in 0 .. subdivisions - 1 :
              LET k == i * subdivisions + j
                  d == subdivisions - 1
              IN  /\ 2 * d * plane_vertices[k][1] = PosScale * width * (2 * j - d)
                  /\ plane_vertices[k][2] = 0
                  /\ 2 * d * plane_vertices[k][3] = PosScale * height * (2 * i - d)
                  /\ d * uvs[k][1] = UVScale * j
                  /\ d * uvs[k][2] = UVScale * (d - i)
        /\ (subdivisions = 3 /\ width = 1 /\ height = 1) =>
              LET one == UVScale
                  half == UVScale \div 2
              IN  uvs = SeqToArr(<< << 0, one >>, << half, one >>, << one, one >>,
                                    << 0, half >>, << half, half >>, << one, half >>,
                                    << 0, 0 >>, << half, 0 >>, << one, 0 >> >>)

C11_Witness ==
    /\ pc = "plane"
    /\ subdivisions = 3 /\ width = 1 /\ height = 1
    /\ uvs[1] = << UVScale \div 2, UVScale >>
    /\ uvs[3] = << 0, UVScale \div 2 >>
    /\ plane_vertices[0] = << -(PosScale \div 2), 0, -(PosScale \div 2) >>
    /\ plane_vertices[5] = << PosScale \div 2, 0, 0 >>

-----------------------------------------------------------------------------
(* Properties of apply_displacement *)

Displaced == pc = "displaced"

\* C12: apply_displacement sets the y of every vertex to (h - 0.5) * scale, h the
\* height sampled for the vertex (0.5 gives 0, 1 gives +scale/2, 0 gives -scale/2),
\* and leaves x, z and the array of the caller as they were
C12_Displacement ==
    Displaced =>
        /\ \A i \in DOMAIN vertices :
              LET h == Sample(height_map, uvs[i])
                  y == vertices[i][2]
              IN  /\ 2 * HeightDen * y = (2 * h - HeightDen) * scale
                  /\ 2 * h = HeightDen => y = 0
                  /\ h = HeightDen => 2 * y = scale
                  /\ h = 0 => 2 * y = -scale
                  /\ vertices[i][1] = plane_vertices[i][1]
                  /\ vertices[i][3] = plane_vertices[i][3]
        /\ DOMAIN vertices = DOMAIN plane_vertices
        /\ plane_vertices = PlaneVertices(width, height, subdivisions)

C12_Witness ==
    /\ Displaced
    /\ scale > 0
    /\ \E i \in DOMAIN vertices : 2 * vertices[i][2] = scale
    /\ \E i \in DOMAIN vertices : 2 * vertices[i][2] = -scale
    /\ \E i \in DOMAIN vertices :
          Sample(height_map, uvs[i]) = 1 /\ vertices[i][2] = 0
    /\ plane_vertices # vertices

\* C13: for every UV (u, v) with u and v in [0, 1] and every height field of width
\* w >= 1 and height h >= 1 the pixel sampled is x = floor(u*(w-1)),
\* y = floor(v*(h-1)), with x in 0 .. w-1 and y in 0 .. h-1, for u = 1, v = 1 and
\* fields one pixel wide or high too
C13_SampleInRange ==
    pc \in { "plane", "displaced" } =>
        LET w == FieldWidth(height_map)
            h == FieldHeight(height_map)
        IN  /\ w >= 1 /\ h >= 1
            /\ \A i \in DOMAIN uvs : uvs[i][1] \in 0 .. UVScale /\ uvs[i][2] \in 0 .. UVScale
            /\ \A u \in 0 .. UVScale : \A v \in 0 .. UVScale :
                  LET x == SampleX(height_map, << u, v >>)
                      y == SampleY(height_map, << u, v >>)
                  IN  /\ x \in 0 .. w - 1
                      /\ y \in 0 .. h - 1
                      /\ x * UVScale <= u * (w - 1) /\ u * (w - 1) < (x + 1) * UVScale
                      /\ y * UVScale <= v * (h - 1) /\ v * (h - 1) < (y + 1) * UVScale

C13_Witness ==
    /\ Displaced
    /\ FieldWidth(height_map) = 2
    /\ FieldHeight(height_map) = 1
    /\ \E i \in DOMAIN uvs :
          /\ uvs[i] = << UVScale, UVScale >>
          /\ SampleX(height_map, uvs[i]) = 1
          /\ SampleY(height_map, uvs[i]) = 0
    /\ \E i \in DOMAIN uvs :
          /\ 0 < uvs[i][1] /\ uvs[i][1] < UVScale
          /\ SampleX(height_map, uvs[i]) = 0

\* C14: the displacement scale handed to apply_displacement is
\* DISPLACEMENT_SCALE * (thickness / 0.005), the thickness in metres being the
\* millimetres of the request divided by 1000: 5 mm gives the base scale, and the
\* displacement of every vertex is proportional to the thickness
C14_DisplacementScale ==
    (Displaced /\ dimensions # None) =>
        /\ 1000 * CARPET_THICKNESS = ThicknessScale * dimensions.thickness
        /\ ReferenceThickness * scale = DISPLACEMENT_SCALE * CARPET_THICKNESS
        /\ 5 * scale = DISPLACEMENT_SCALE * dimensions.thickness
        /\ dimensions.thickness = 5 => scale = DISPLACEMENT_SCALE
        /\ \A i \in DOMAIN vertices :
              5 * vertices[i][2] =
                  dimensions.thickness * Displace(Sample(height_map, uvs[i]), DISPLACEMENT_SCALE)

C14_Witness ==
    /\ Displaced
    /\ dimensions # None
    /\ dimensions.thickness = 10
    /\ scale = 2 * DISPLACEMENT_SCALE
    /\ \E i \in DOMAIN vertices : vertices[i][2] = DISPLACEMENT_SCALE

-----------------------------------------------------------------------------
(* The flat field *)

\* every pixel of the height field is 0.5
FlatField ==
    /\ height_map # << >>
    /\ \A y \in 1 .. FieldHeight(height_map) : \A x \in 1 .. FieldWidth(height_map) :
          2 * height_map[y][x] = HeightDen

\* C15: for a constant height field of 0.5 and any S >= 2, apply_displacement leaves
\* y = 0 at every vertex and compute_tangents gives every vertex, corners and edges
\* included, the same unit tangent (1, 0, 0)
C15_FlatFieldTangents ==
    FlatField =>
        /\ pc \in { "displaced", "tangent_loop", "gram_schmidt", "tangents_done" } =>
              \A i \in DOMAIN vertices : vertices[i][2] = 0
        /\ pc = "tangents_done" =>
              \A i \in DOMAIN tangents : tangents[i] = Sv(<< 1, 0, 0 >>, 1)

C15_Witness ==
    /\ FlatField
    /\ pc = "tangents_done"
    /\ subdivisions = 3
    /\ width # height
    /\ \A i \in DOMAIN normals : normals[i] = Sv(<< 0, 1, 0 >>, 1)
    /\ tangents[0] = Sv(<< 1, 0, 0 >>, 1)
    /\ tangents[4] = Sv(<< 1, 0, 0 >>, 1)
    /\ tangents[8] = Sv(<< 1, 0, 0 >>, 1)

-----------------------------------------------------------------------------
(* Files left by the export *)

\* C19: no partially written GLB is ever at the final output path: the file is
\* written to a temporary path and renamed, and a failed write leaves no file at
\* the destination
C19_NoPartialGlb ==
    /\ glb_file # PartialFile
    /\ pc = "failed" => glb_file \in { NoFile }

\* C20: when the conversion fails at any stage, a USDZ failure after the GLB was
\* exported included, neither a GLB nor a USDZ of that conversion is on disk
C20_NoArtifactAfterFailure ==
    pc = "failed" => (glb_file = NoFile /\ usdz_file = "absent")

-----------------------------------------------------------------------------
(* Conversions in one process *)

\* C16: when two conversions with different dimensions run at the same time, the
\* mesh of each is built with the width, length and thickness of its own request
C16_OwnDimensions ==
    \A c \in DOMAIN calls :
        (calls[c].dimensions # None /\ calls[Other(c)].dimensions # None) =>
            /\ calls[c].pc \in { "plane", "mesh", "glb", "done" } =>
                  /\ calls[c].mesh.width = calls[c].dimensions.width
                  /\ calls[c].mesh.height = calls[c].dimensions.length
            /\ calls[c].pc \in { "mesh", "glb", "done" } =>
                  calls[c].mesh.scale =
                      DisplacementScale(DISPLACEMENT_SCALE,
                                        ThicknessOfMm(calls[c].dimensions.thickness))

\* the paths a call has written or read so far
TouchedPaths(c) ==
    ({ calls[c].basecolor_path, calls[c].normal_map_path } \ { NoPath })
        \cup (IF calls[c].pc \in { "glb", "done" } THEN { GlbPath(calls[c].output_name) } ELSE { })
        \cup (IF calls[c].pc = "done" THEN { UsdzPath(calls[c].output_name) } ELSE { })

\* C17: two conversions with distinct output names never write or read the same
\* path (basecolor, normal map, GLB, USDZ), the names of their input images being
\* equal or not, and each embeds its own textures
C17_DistinctPaths ==
    (calls # << >> /\ calls[1].output_name # calls[2].output_name) =>
        /\ TouchedPaths(1) \cap TouchedPaths(2) = { }
        /\ \A c \in DOMAIN calls :
              calls[c].pc \in { "glb", "done" } => calls[c].embedded = << c, c >>

\* C18: a call without a dimensions argument builds its mesh with the configured
\* defaults, whether or not an earlier call of the process, now returned, gave
\* custom dimensions
C18_DefaultsWithoutDimensions ==
    \A c \in DOMAIN calls :
        (calls[c].dimensions = None /\ calls[Other(c)].pc \in { "called", "done" }) =>
            /\ calls[c].pc = "plane" =>
                  /\ calls[c].mesh.width = DefaultWidth
                  /\ calls[c].mesh.height = DefaultHeight
            /\ calls[c].pc = "mesh" =>
                  calls[c].mesh.scale = DisplacementScale(DISPLACEMENT_SCALE, DefaultThickness)

-----------------------------------------------------------------------------
(* Refusal of bad inputs *)

\* the arrays the export was handed disagree in length, or an index is not below
\* the number of vertices
ArraysDisagree ==
    \/ ArrLen(tangents) # ArrLen(vertices)
    \/ ArrLen(uvs) # ArrLen(vertices)
    \/ ArrLen(normals) # ArrLen(vertices)
    \/ \E k \in 1 .. Len(faces) : \E c \in 1 .. 3 : faces[k][c] >= ArrLen(vertices)

\* C22: when the attribute arrays handed to the export disagree in length (the
\* tangent array against the vertex array, for one) or an index is >= the vertex
\* count, the export raises before anything is written at the output path
C22_MismatchRejected ==
    (pc \in { "mesh", "arrays", "mesh_data", "document", "exported", "failed" }
        /\ vertices # << >> /\ ArraysDisagree) =>
            /\ glb_file = NoFile
            /\ pc \in { "mesh", "failed" }

\* a subdivision count below 2, or a width or length that is not positive
InvalidConfiguration == subdivisions < 2 \/ width <= 0 \/ height <= 0

\* C23: a subdivision count S < 2 or a non-positive width or length is refused with
\* an error when mesh building starts, before any mesh, document or file exists
C23_InvalidConfigurationRejected ==
    (pc \notin { "called", "service" } /\ InvalidConfiguration) =>
        /\ pc \in { "start", "loaded", "failed" }
        /\ vertices = << >>
        /\ buffer_views = << >>
        /\ glb_file = NoFile

ImageErrors ==
    { "ValueError: Could not load normal map",
      "ValueError: Could not load texture images",
      "OSError: cannot decode image" }

\* C24: when the normal map used as height source, or either texture, cannot be
\* opened or decoded, the conversion raises, the GLB write step is not reached and
\* no GLB is created at the output path
C24_UnreadableImageNoGlb ==
    /\ error \in ImageErrors => (pc = "failed" /\ glb_file = NoFile)
    /\ (pc = "start" /\ ENABLED LoadNormalMapFails) => glb_file = NoFile
    /\ (pc \in { "mesh", "mesh_data" } /\ vertices # << >>) => glb_file = NoFile

C24_Witness ==
    /\ pc = "failed"
    /\ error = "ValueError: Could not load texture images"
    /\ vertices # << >>
    /\ tangents # << >>
    /\ glb_file = NoFile

-----------------------------------------------------------------------------
(* Diagnostics and handedness of compute_tangents *)

\* the triangles compute_tangents skipped
SkippedTriangles == { k \in 1 .. Len(faces) : Degenerate(uvs, faces[k]) }

\* the vertices some triangle refers to
ReferencedVertices == { faces[k][c] : k \in 1 .. Len(faces), c \in 1 .. 3 }

\* the log records that tell of skipped triangles
SkipRecords == { k \in 1 .. Len(log) : "skipped" \in DOMAIN log[k] }

\* C25: each triangle skipped for its degenerate UV mapping is recorded for
\* diagnostics, in the result or the log, and the computation proceeds
C25_SkipsRecorded ==
    (pc = "tangents_done" /\ SkippedTriangles # { }) =>
        \/ SkipRecords # { }
        \/ log[Len(log)].vertices < Cardinality(ReferencedVertices)

\* C26: on the grid of create_subdivided_plane with a flat field and normals
\* (0,1,0), the handedness +1 written for every vertex agrees with the geometry:
\* (n x t) . b > 0 for the accumulated bitangent b of every vertex
C26_HandednessAgrees ==
    (FlatField /\ pc = "tangents_done" /\ width > 0 /\ height > 0) =>
        \A i \in DOMAIN tangents :
            /\ normals[i] = Sv(<< 0, 1, 0 >>, 1)
            /\ bitangents[i].q > 0
            /\ Dot(Cross(normals[i].v, tangents[i].v), bitangents[i].v) > 0
            /\ TangentsVec4(tangents)[i].w = 1

C26_Witness ==
    /\ FlatField
    /\ pc = "tangents_done"
    /\ subdivisions = 3
    /\ width # height
    /\ Cross(normals[4].v, tangents[4].v) = << 0, 0, -1 >>
    /\ bitangents[4].v[3] < 0
    /\ bitangents[0].v[3] < 0

-----------------------------------------------------------------------------
(* The USDZ conversion *)

ConvertibleInput ==
    /\ conversion.pc \notin { "none", "export_usdz" }
    /\ conversion.glb_path.suffix \in { ".glb", ".gltf" }
    /\ conversion.raised \notin { "FileNotFoundError: Input file not found" }

\* C27: for an existing .glb or .gltf input, convert_glb_to_usdz raises only when
\* the primary conversion and the fallback both failed, and it then raises the
\* error of the primary conversion; when the fallback succeeds it returns
C27_RaisesPrimaryError ==
    ConvertibleInput =>
        /\ (conversion.pc = "cleanup") =>
              /\ conversion.e # NoError
              /\ conversion.fallback_error # NoError
              /\ conversion.raised = conversion.e
        /\ (conversion.e # NoError /\ conversion.fallback_error = NoError
               /\ conversion.pc \notin { "fallback", "fallback_package" }) =>
              /\ conversion.pc \in { "converted", "returned" }
              /\ conversion.raised = NoError

C27_Witness ==
    /\ ConvertibleInput
    /\ conversion.pc = "cleanup"
    /\ conversion.e = "RuntimeError: Failed to create USD stage"
    /\ conversion.fallback_error = "RuntimeError: Failed to create fallback USDZ package"
    /\ conversion.raised = "RuntimeError: Failed to create USD stage"

-----------------------------------------------------------------------------
(* The files of the upload route *)

\* the generation of a request is under way: submitted and not yet returned
Generating(r) == requests[r].pc \in { "generating", "basecolor", "normal" }

\* C28: when two uploads of the same file name overlap, the generation of each
\* request reads the image this request uploaded, and that image is on disk
\* until the generation has finished
C28_OwnImage ==
    \A r \in Requests :
        /\ \A k \in 1 .. Len(requests[r].images) : requests[r].images[k] = Content("image", r)
        /\ Generating(r) =>
              [path |-> requests[r].temp_image_path, data |-> Content("image", r)] \in files

\* the image of request r has been saved
Saved(r) == requests[r].temp_image_path # NoPath

C30_GeneratedFilesRemoved ==
    \A r \in Requests :
        (requests[r].pc = "done" /\ requests[r].success) =>
            /\ ~Exists(files, GeneratedGlbPath(requests[r].glb_filename))
            /\ ~Exists(files, GeneratedUsdzPath(requests[r].glb_filename))

=============================================================================
